---------------------------- MODULE Spec2Model ----------------------------
(***************************************************************************)
(* A model of the Discogs barcode tools:                                   *)
(*   process_discogs_data.py  builds the SQLite index `releases`,          *)
(*   barcode_lookup.py        looks a scan up and keeps the association    *)
(*                            store barcode_database.json,                 *)
(*   album_json_creator.py    keeps one JSON record per album in           *)
(*                            data/albums.                                 *)
(*                                                                         *)
(* Python strings are sequences of one-character strings, so that          *)
(* normalisation, strip, split and the substring test are computed         *)
(* character by character as the code computes them.  A field that holds  *)
(* an int in one place and a string or None in another (year, discogs_id)  *)
(* holds the int as PyInt(n); None is a value no string equals; a function   *)
(* that returns a dict or None returns NoDict for None.                    *)
(***************************************************************************)
EXTENDS Integers, Sequences, FiniteSets, TLC

VARIABLES
    releases,      \* rows of table `releases` as the writing connection sees them
    committed,     \* rows of table `releases` as committed to discogs_barcodes.db
    pc,            \* where process_releases is: idle, running, done, failed, nofile
    processed,     \* history: the release elements inserted by the current run
    errors,        \* history: the errors process_releases printed in this run
    rerun,         \* history: the previous run, when this run repeats its dump
    albums,        \* data/albums/*.json in enumeration order: <<path, data>>
    inventory,     \* the "albums" list of cd_inventory.json
    database,      \* barcode_database.json: the entries its text holds, in order
    decodable,     \* whether that text is a whole JSON document
    tool,          \* which loop handled the last scan
    scan,          \* the last scanned string, as typed
    matching,      \* matching_albums found for the last scan
    ui,            \* what the user and the terminal did during the last scan
    selected,      \* what select_album_menu returned for the last scan
    outcome,       \* the outcomes reported for the last scan, in order
    metadata,      \* what lookup_barcode returned for the last scan
    dl_pc,         \* where MultipartDownloader.download is
    num_chunks,    \* self.num_chunks
    file_size,     \* self.file_size
    chunk_files,   \* chunk_files: the names of the parts, as their futures completed
    part_bytes,    \* the bytes of the dump each part of chunk_files holds
    fetches,       \* how many times download() has submitted its chunks
    workers,       \* the threads running download_chunk: where each one is
    lock,          \* self.lock: the threads that hold it
    progress_bar,  \* self.progress_bar.n
    written,       \* the bytes each thread has written to its part
    outfile,       \* the bytes of the file at output_path, as the ranges written
    fn,            \* a function called on its own: which one
    arg,           \* its argument
    returned       \* what it returned

\* the index and the run of process_releases
ingestVars == <<releases, committed, pc, processed, errors, rerun>>

\* the local stores
storeVars == <<albums, inventory, database, decodable>>

\* the handling of the last scan
scanVars == <<tool, scan, matching, ui, selected, outcome, metadata>>

\* the download of the dump
downloadVars == <<dl_pc, num_chunks, file_size, chunk_files, part_bytes, fetches,
                  outfile, workers, lock, progress_bar, written>>

\* the threads of a download and the progress they report
progressVars == <<workers, lock, progress_bar, written>>

\* a function called on its own
callVars == <<fn, arg, returned>>

vars == <<ingestVars, storeVars, scanVars, downloadVars, callVars>>

\* Python's None where a string or an int is expected
None == <<"None">>

\* an int, where a string or None may stand as well
PyInt(n) == <<"int", n>>

\* Python's None where a dict (or a tuple) is expected
NoDict == [None |-> TRUE]

-----------------------------------------------------------------------------
(* Bounds of the model.                                                    *)

\* releases in one dump
MaxReleases == 2
\* identifier elements of type Barcode in one release
MaxBarcodes == 2
\* JSON files in data/albums
MaxFiles == 2
\* entries of barcode_database.json
MaxEntries == 3

-----------------------------------------------------------------------------
(* Strings.                                                                *)

Digits == {"0", "1", "2", "3", "4", "5", "6", "7", "8", "9"}

\* characters outside ASCII that str.isdigit() accepts as well; the
\* fullwidth digit two (U+FF12) stands for them, written as one character
WideDigits == {"U+FF12"}

\* str.isdigit() of one character
isdigit(c) == c \in Digits \cup WideDigits

\* the value int() gives a digit
digit_value(c) ==
    IF c = "U+FF12" THEN 2
    ELSE CHOOSE d \in 0..9 : c = <<"0","1","2","3","4","5","6","7","8","9">>[d + 1]

\* the string as it is, every character kept
keep_all(s) == s

\* ''.join(c for c in barcode if c.isdigit())
Normalize(s) == SelectSeq(s, isdigit)

RECURSIVE lstrip(_, _)
lstrip(s, chars) ==
    IF s # <<>> /\ Head(s) \in chars THEN lstrip(Tail(s), chars) ELSE s

RECURSIVE rstrip(_, _)
rstrip(s, chars) ==
    IF s # <<>> /\ s[Len(s)] \in chars
    THEN rstrip(SubSeq(s, 1, Len(s) - 1), chars)
    ELSE s

\* str.strip(chars)
strip_chars(s, chars) == rstrip(lstrip(s, chars), chars)

\* str.strip(): whitespace
strip(s) == strip_chars(s, {" "})

\* sep.join(parts)
RECURSIVE join(_, _)
join(sep, parts) ==
    IF parts = <<>> THEN <<>>
    ELSE IF Len(parts) = 1 THEN parts[1]
    ELSE parts[1] \o sep \o join(sep, Tail(parts))

\* s.split(',')[0]
RECURSIVE before_comma(_)
before_comma(s) ==
    IF s = <<>> \/ Head(s) = "," THEN <<>>
    ELSE <<Head(s)>> \o before_comma(Tail(s))

\* the artist string as it is, all artists kept
whole_artist(artist) == artist

\* "Keep only the first artist (before any comma)"
first_artist(artist) ==
    IF \E i \in 1..Len(artist) : artist[i] = ","
    THEN strip(before_comma(artist))
    ELSE artist

\* a in b, for strings
is_substring(a, b) ==
    \E i \in 0..(Len(b) - Len(a)) : SubSeq(b, i + 1, i + Len(a)) = a

\* the values of a sequence
Range(s) == {s[i] : i \in 1..Len(s)}

\* the sequences over S of length at most n
SeqsUpTo(S, n) == UNION {[1..k -> S] : k \in 0..n}

-----------------------------------------------------------------------------
(* process_discogs_data.py: the index.                                     *)
(* A row of `releases` keeps id, barcode, title, artist and year; the      *)
(* columns country, format, label, genre and catno are written and read    *)
(* back the same way and are not modelled.  The id attribute is numeric    *)
(* text that the INTEGER PRIMARY KEY column stores as an integer, and is   *)
(* modelled as that integer.                                               *)

\* int(year), for a string of digits
RECURSIVE to_int(_)
to_int(s) ==
    IF s = <<>> THEN 0
    ELSE 10 * to_int(SubSeq(s, 1, Len(s) - 1)) + digit_value(s[Len(s)])

\* year = int(year) if year and year.isdigit() else None
parse_year(released) ==
    IF released # <<>> /\ \A i \in 1..Len(released) : isdigit(released[i])
    THEN PyInt(to_int(released))
    ELSE None

\* artist_names = [artist.text for artist in artists if artist.text]
\* artist = ', '.join(artist_names)
join_artists(artists) == join(<<",", " ">>, SelectSeq(artists, LAMBDA a : a # <<>>))

\* INSERT OR REPLACE INTO releases: the only uniqueness constraint of the
\* table is the primary key id, so the row of the same id is replaced.
insert_or_replace(table, row) ==
    {r \in table : r.id # row.id} \cup {row}

\* the row written for one identifier value of a release
release_row(elem, barcode) ==
    [id      |-> elem.id,
     barcode |-> Normalize(barcode),
     title   |-> elem.title,
     artist  |-> join_artists(elem.artists),
     year    |-> parse_year(elem.released)]

\* for barcode_elem in barcodes: strip, skip if empty, normalise, insert
RECURSIVE insert_barcodes(_, _, _)
insert_barcodes(table, elem, values) ==
    IF values = <<>> THEN table
    ELSE LET barcode == strip(Head(values))
             next    == IF barcode # <<>>
                        THEN insert_or_replace(table, release_row(elem, barcode))
                        ELSE table
         IN  insert_barcodes(next, elem, Tail(values))

\* the body of the loop for one <release> element
process_release(table, elem) == insert_barcodes(table, elem, elem.barcodes)

\* process_releases on a whole dump, after DELETE FROM releases
RECURSIVE process_dump(_, _)
process_dump(table, dump) ==
    IF dump = <<>> THEN table
    ELSE process_dump(process_release(table, Head(dump)), Tail(dump))

(* The inputs of the ingestion.                                            *)

\* values of <identifier type="Barcode" value=...>
RawBarcodes ==
    { <<"1","2">>, <<"1","-","2">>, <<"1">>, <<"0">>, <<" ","-">>, <<" ">> }

\* title, artist names and <released> of a release
ReleaseFacts ==
    { [title |-> <<"A">>, artists |-> << <<"X">> >>,
       released |-> <<"1","9","9","2">>],
      [title |-> <<"B">>, artists |-> << <<"X">>, <<"Y">> >>,
       released |-> <<>>] }

ReleaseIds == 1..MaxReleases

ReleaseElements ==
    { [id |-> i, title |-> f.title, artists |-> f.artists,
       released |-> f.released, barcodes |-> b] :
        i \in ReleaseIds, f \in ReleaseFacts,
        b \in SeqsUpTo(RawBarcodes, MaxBarcodes) }

\* the digits-only barcodes a release carries
NormBarcodes(elem) ==
    { Normalize(strip(v)) : v \in {w \in Range(elem.barcodes) : strip(w) # <<>>} }

-----------------------------------------------------------------------------
(* barcode_lookup.py: lookup_barcode.                                      *)

\* f"https://www.discogs.com/release/{result['id']}"
discogs_url(id) == <<"https://www.discogs.com/release/", id>>

\* cursor.fetchone() of SELECT * FROM releases WHERE barcode = ?: the
\* search runs on idx_barcode, whose entries of one barcode are in rowid
\* order, and the rowid is the id.
fetchone(rows) == CHOOSE r \in rows : \A q \in rows : r.id <= q.id

\* lookup_barcode without the clean-up of line 41
lookup_barcode_raw(barcode, table) ==
    LET rows == {r \in table : r.barcode = barcode}
    IN  IF rows = {} THEN NoDict
        ELSE LET result == fetchone(rows)
             IN  [barcode     |-> barcode,
                  discogs_id  |-> PyInt(result.id),
                  discogs_url |-> discogs_url(result.id),
                  title       |-> result.title,
                  artist      |-> first_artist(result.artist),
                  year        |-> result.year,
                  path        |-> <<>>]

\* lookup_barcode(barcode) against the table; a missing database file
\* returns None as an empty table does
lookup_barcode(barcode, table) ==
    LET clean == Normalize(barcode)
        rows  == {r \in table : r.barcode = clean}
    IN  IF rows = {} THEN NoDict
        ELSE LET result == fetchone(rows)
             IN  [barcode     |-> clean,
                  discogs_id  |-> PyInt(result.id),
                  discogs_url |-> discogs_url(result.id),
                  title       |-> result.title,
                  artist      |-> first_artist(result.artist),
                  year        |-> result.year,
                  path        |-> <<>>]

-----------------------------------------------------------------------------
(* The ingestion run: process_releases, one step per release element.      *)
(* `releases` is the table as the connection of the run sees it,           *)
(* `committed` the table as the last conn.commit() left it; conn.close()   *)
(* without a commit rolls the open transaction back.                       *)

\* no menu was shown, no question asked
NoMenu == [curses |-> "unused", key |-> -1, typed |-> <<>>]
NoUi == [menu |-> NoMenu, answers |-> <<>>, artist |-> <<>>, write |-> "none"]

ScanIdle ==
    /\ tool = "none" /\ scan = <<>> /\ matching = <<>> /\ ui = NoUi
    /\ selected = NoDict /\ outcome = <<>> /\ metadata = NoDict

\* no MultipartDownloader has run
DownloadIdle ==
    /\ dl_pc = "idle" /\ num_chunks = 0 /\ file_size = 0
    /\ chunk_files = <<>> /\ part_bytes = <<>> /\ fetches = 0 /\ outfile = <<>>
    /\ workers = <<>> /\ lock = {} /\ progress_bar = 0 /\ written = <<>>

\* no function was called on its own
CallIdle == fn = "none" /\ arg = <<>> /\ returned = <<>>

\* the malformed release elements one run may meet and skip
MaxMalformed == 1

\* if count % 10000 == 0: conn.commit()
CommitEvery == 10000

\* no index, no store, no scan, no download yet
ProgramIdle ==
    /\ releases = {}
    /\ committed = {}
    /\ pc = "idle"
    /\ processed = <<>>
    /\ errors = <<>>
    /\ rerun = NoDict
    /\ albums = <<>>
    /\ inventory = <<>>
    /\ database = <<>>
    /\ decodable = TRUE
    /\ ScanIdle
    /\ DownloadIdle

InitIngest == ProgramIdle /\ CallIdle

\* the releases skipped with "Error processing release"
skipped == Cardinality({k \in 1..Len(errors) : errors[k].kind = "release"})

\* count, line 149: the release elements met so far
count == Len(processed) + skipped

\* the run repeats the dump of the previous run
replaying == rerun # NoDict

\* in a repeated run: the next element of the dump is the one that failed
error_due ==
    /\ replaying
    /\ Len(errors) < Len(rerun.errors)
    /\ rerun.errors[Len(errors) + 1].at = Len(processed)

\* lines 65-67: the dump is not there, nothing is touched
FileMissing ==
    /\ pc \in {"idle", "done", "failed", "nofile"}
    /\ pc' = "nofile"
    /\ UNCHANGED <<releases, committed, processed, errors, rerun, storeVars,
                   scanVars, downloadVars, callVars>>

\* lines 69-74 without the DELETE: the rows of the previous run stay
StartProcessKeep ==
    /\ pc \in {"idle", "done", "failed", "nofile"}
    /\ \E again \in BOOLEAN :
         /\ again => pc \in {"done", "failed"}
         /\ rerun' = IF again
                     THEN [dump |-> processed, errors |-> errors, table |-> releases]
                     ELSE NoDict
    /\ pc' = "running"
    /\ processed' = <<>>
    /\ errors' = <<>>
    /\ UNCHANGED <<releases, committed, storeVars, scanVars, downloadVars, callVars>>

\* lines 69-74: DELETE FROM releases, commit.  The run is on a new dump or
\* on the dump of the run before.
StartProcess ==
    /\ pc \in {"idle", "done", "failed", "nofile"}
    /\ \E again \in BOOLEAN :
         /\ again => pc \in {"done", "failed"}
         /\ rerun' = IF again
                     THEN [dump |-> processed, errors |-> errors, table |-> releases]
                     ELSE NoDict
    /\ pc' = "running"
    /\ releases' = {}
    /\ committed' = {}
    /\ processed' = <<>>
    /\ errors' = <<>>
    /\ UNCHANGED <<storeVars, scanVars, downloadVars, callVars>>

\* lines 91-151: one well-formed release element; the ids of a dump are
\* distinct
ProcessRelease ==
    /\ pc = "running"
    /\ Len(processed) < MaxReleases
    /\ ~error_due
    /\ \E elem \in ReleaseElements :
         /\ \A i \in 1..Len(processed) : processed[i].id # elem.id
         /\ replaying => /\ Len(processed) < Len(rerun.dump)
                         /\ elem = rerun.dump[Len(processed) + 1]
         /\ releases' = process_release(releases, elem)
         /\ processed' = Append(processed, elem)
         /\ committed' = IF (count + 1) % CommitEvery = 0
                         THEN process_release(releases, elem)
                         ELSE committed
    /\ UNCHANGED <<pc, errors, rerun, storeVars, scanVars, downloadVars, callVars>>

\* lines 93-151 with the except of 143-144: a release element whose
\* extraction or INSERT raises (an id attribute that is no integer: datatype
\* mismatch; a <released> int() refuses) is reported and left out
SkipRelease ==
    /\ pc = "running"
    /\ skipped < MaxMalformed
    /\ replaying => (error_due /\ rerun.errors[Len(errors) + 1].kind = "release")
    /\ errors' = Append(errors, [at |-> Len(processed), kind |-> "release"])
    /\ committed' = IF (count + 1) % CommitEvery = 0 THEN releases ELSE committed
    /\ UNCHANGED <<releases, pc, processed, rerun, storeVars, scanVars,
                   downloadVars, callVars>>

\* line 91 with the except of 160-164: the next bytes are not well-formed
\* XML (or the gzip stream is cut), the iterator raises, the run prints the
\* error and closes the connection without a commit
AbortProcess ==
    /\ pc = "running"
    /\ replaying => (error_due /\ rerun.errors[Len(errors) + 1].kind = "xml")
    /\ errors' = Append(errors, [at |-> Len(processed), kind |-> "xml"])
    /\ releases' = committed
    /\ pc' = "failed"
    /\ UNCHANGED <<committed, processed, rerun, storeVars, scanVars,
                   downloadVars, callVars>>

\* lines 157-158: the end of the dump, the last commit
FinishProcess ==
    /\ pc = "running"
    /\ replaying => (processed = rerun.dump /\ errors = rerun.errors)
    /\ pc' = "done"
    /\ committed' = releases
    /\ UNCHANGED <<releases, processed, errors, rerun, storeVars, scanVars,
                   downloadVars, callVars>>

NextIngest ==
    \/ FileMissing
    \/ StartProcess
    \/ ProcessRelease
    \/ SkipRelease
    \/ AbortProcess
    \/ FinishProcess

SpecIngest == InitIngest /\ [][NextIngest]_vars

-----------------------------------------------------------------------------
(* Claims about the index.                                                 *)

\* the last element of the run that carries barcode b
LastCarrier(b) ==
    CHOOSE j \in 1..Len(processed) :
        /\ b \in NormBarcodes(processed[j])
        /\ \A k \in (j + 1)..Len(processed) : b \notin NormBarcodes(processed[k])

\* C1: when two releases of different ids in the dump carry the same
\* normalized barcode, a lookup of that barcode after process_releases has
\* finished returns the attributes of the one processed later.
C1_LastWriteWins ==
    pc = "done" =>
        \A i, j \in 1..Len(processed) :
            (i < j /\ processed[i].id # processed[j].id) =>
                \A b \in NormBarcodes(processed[i]) \cap NormBarcodes(processed[j]) :
                    LET last == processed[LastCarrier(b)]
                        found == lookup_barcode(b, releases)
                    IN  /\ found # NoDict
                        /\ found.discogs_id = PyInt(last.id)
                        /\ found.title = last.title

\* C2: after process_releases has finished, every release of the dump is in
\* the index under every one of its non-empty digits-only barcodes.
C2_EntryPerBarcode ==
    pc = "done" =>
        \A i \in 1..Len(processed) :
            \A b \in NormBarcodes(processed[i]) \ {<<>>} :
                \E r \in releases : r.barcode = b /\ r.id = processed[i].id

\* a string of zero digits only (the empty string included)
AllZeros(b) == \A i \in 1..Len(b) : b[i] = "0"

\* C3: during and after process_releases no row of the index has a barcode
\* that is empty or made of zeros only.
C3_NoEmptyOrZeroBarcode ==
    \A r \in releases : ~AllZeros(r.barcode)

\* the barcodes a lookup may ask for: the digits-only forms of the
\* identifier values
LookupKeys == {Normalize(v) : v \in RawBarcodes}

\* the run is over, with or without an error
RunOver == pc \in {"done", "failed"}

\* C15: a run of process_releases that repeats the dump of the run before
\* leaves an index in which every lookup returns what it returned after
\* the run before; and after any run every row of the index comes from a
\* release of the dump of that run, whatever the index held before.
C15_RebuildIdempotent ==
    RunOver =>
        /\ replaying =>
               \A b \in LookupKeys :
                   lookup_barcode(b, committed) = lookup_barcode(b, rerun.table)
        /\ \A r \in committed :
               \E i \in 1..Len(processed) :
                   /\ processed[i].id = r.id
                   /\ r.barcode \in NormBarcodes(processed[i])

\* C15 happens: the same two releases were indexed a second time and the
\* lookups of the two runs found the same release
C15_Witness ==
    /\ pc = "done"
    /\ replaying
    /\ Len(processed) = 2
    /\ rerun.dump = processed
    /\ \E b \in LookupKeys : lookup_barcode(b, committed) # NoDict

\* C19: a run that met a malformed release element is not aborted by it:
\* it ends with its final commit, and every well-formed release of the
\* dump that carries a barcode, before or after the malformed element, has
\* its row committed.
C19_MalformedNeverAborts ==
    (RunOver /\ errors # <<>>) =>
        /\ pc = "done"
        /\ \A i \in 1..Len(processed) :
               NormBarcodes(processed[i]) # {} =>
                   \E r \in committed : r.id = processed[i].id

-----------------------------------------------------------------------------
(* album_json_creator.py: one JSON record per album in data/albums.        *)
(* A record keeps Artist, Title, Year and Barcode; Country, Genres,        *)
(* Labels, Catalog #, Formats, Discogs URL, Path and Created are copied    *)
(* from the metadata and take no part in any search, and are not           *)
(* modelled.  `albums` lists the files in the order glob.glob returns      *)
(* them; cd_inventory.json is not among them.                              *)

\* str(n) for an int n >= 0
RECURSIVE int_str(_)
int_str(n) ==
    LET d == <<"0","1","2","3","4","5","6","7","8","9">>[(n % 10) + 1]
    IN  IF n < 10 THEN <<d>> ELSE int_str(n \div 10) \o <<d>>

\* f"{year}": the year is an int, None, or a string the user typed
format_value(v) ==
    IF v = None THEN <<"N","o","n","e">>
    ELSE IF Len(v) = 2 /\ v[1] = "int" THEN int_str(v[2])
    ELSE v

\* the characters re.sub(r'[\\/*?:"<>|]', '_', ...) replaces
InvalidChars == {"\\", "/", "*", "?", ":", "\"", "<", ">", "|"}

MaxFilenameLen == 100

\* sanitize_filename without the cut of lines 44-45
sanitize_uncut(filename) ==
    strip_chars([i \in 1..Len(filename) |->
                    IF filename[i] \in InvalidChars THEN "_" ELSE filename[i]],
                {".", " "})

sanitize_filename(filename) ==
    LET replaced  == [i \in 1..Len(filename) |->
                        IF filename[i] \in InvalidChars THEN "_" ELSE filename[i]]
        sanitized == strip_chars(replaced, {".", " "})
    IN  IF Len(sanitized) > MaxFilenameLen
        THEN SubSeq(sanitized, 1, MaxFilenameLen)
        ELSE sanitized

\* batch_mode, lines 454-455: "In batch mode, just show the first match"
last_match(matching_albums) == matching_albums[Len(matching_albums)]

first_match(matching_albums) == matching_albums[1]

\* find_all_albums_by_barcode: the files whose Barcode equals the argument,
\* in enumeration order
find_all_albums_by_barcode(barcode, files) ==
    SelectSeq(files, LAMBDA f : f.data.Barcode = barcode)

\* the record create_album_json builds from the metadata
album_data(md) ==
    [Artist  |-> first_artist(md.artist),
     Title   |-> md.title,
     Year    |-> md.year,
     Barcode |-> md.barcode]

\* json_path, without the directory and the extension
json_path(md) ==
    sanitize_filename(first_artist(md.artist) \o <<" ","-"," ">> \o md.title
                      \o <<" ","(">> \o format_value(md.year) \o <<")">>)

\* whether create_album_json would add a file
creates_file(md, files) ==
    \A i \in 1..Len(files) : files[i].path # json_path(md)

\* create_album_json: open(json_path, 'w') replaces the file of that name
\* or adds one, which the next enumeration returns at position pos
create_album_json(md, files, pos) ==
    LET file == [path |-> json_path(md), data |-> album_data(md)]
    IN  IF creates_file(md, files)
        THEN SubSeq(files, 1, pos - 1) \o <<file>> \o SubSeq(files, pos, Len(files))
        ELSE [i \in 1..Len(files) |->
                IF files[i].path = file.path THEN file ELSE files[i]]

\* int(input(...)) of the fallback prompt; -1 stands for ValueError
parse_choice(typed) ==
    IF typed # <<>> /\ \A i \in 1..Len(typed) : isdigit(typed[i])
    THEN to_int(typed)
    ELSE -1

\* the match select_album_menu falls back to in the specification: the
\* first one, whatever is typed
select_first_match(matching_albums, menu) ==
    IF matching_albums = <<>> THEN NoDict
    ELSE IF menu.curses = "ok" /\ Len(matching_albums) > 1
         THEN IF menu.key >= 0 THEN matching_albums[menu.key + 1] ELSE NoDict
         ELSE matching_albums[1]

\* select_album_menu, the same code in album_json_creator.py (78-174) and
\* barcode_lookup.py (134-230).  menu.curses says whether curses.wrapper
\* returned or raised, menu.key is what _show_menu returned (the row under
\* Enter, -1 for Escape), menu.typed is the line typed at the fallback
\* prompt.
select_album_menu(matching_albums, menu) ==
    IF matching_albums = <<>> THEN NoDict
    ELSE IF Len(matching_albums) = 1 THEN matching_albums[1]
    ELSE IF menu.curses = "ok"
         THEN IF menu.key >= 0 THEN matching_albums[menu.key + 1] ELSE NoDict
         ELSE LET choice == parse_choice(menu.typed)
              IN  IF 1 <= choice /\ choice <= Len(matching_albums)
                  THEN matching_albums[choice]
                  ELSE NoDict

\* lines 230-244: the files in enumeration order, each appended unless its
\* Barcode is truthy and already among existing_barcodes
RECURSIVE merge_albums(_, _, _)
merge_albums(files, listed, existing_barcodes) ==
    IF files = <<>> THEN listed
    ELSE LET data    == Head(files).data
             barcode == data.Barcode
         IN  IF barcode # <<>> /\ barcode \in existing_barcodes
             THEN merge_albums(Tail(files), listed, existing_barcodes)
             ELSE merge_albums(Tail(files), Append(listed, data),
                               IF barcode # <<>>
                               THEN existing_barcodes \cup {barcode}
                               ELSE existing_barcodes)

\* update_inventory: inventory["albums"] after the call
update_inventory(listed, files) ==
    merge_albums(files, listed, {listed[i].Barcode : i \in 1..Len(listed)})

(* What the user and the terminal may do.                                  *)

\* scanned strings, after .strip()
Scans == { <<"1","2">>, <<"1","-","2">>, <<"1">>, <<"0">>, <<"-">> }

\* lines typed at "Select album number (0 to cancel)"
TypedChoices == { <<"0">>, <<"1">>, <<"2">>, <<"x">> }

\* the ways select_album_menu can go for n matches
Menus(n) ==
    IF n < 2
    THEN {NoMenu}
    ELSE {[curses |-> "ok", key |-> k, typed |-> <<>>] : k \in -1..(n - 1)}
         \cup {[curses |-> "raises", key |-> -1, typed |-> t] : t \in TypedChoices}

\* titles typed as a correction or a manual entry; empty keeps the value
TypedTitles == { <<>>, <<"A">>, <<"B">> }

\* artist names typed at a prompt, after .strip()
TypedArtists == { <<"X">>, <<"X"," ",",","Y">> }

\* what the user types for a manual entry
ManualEntries ==
    { [artist |-> a, title |-> t, year |-> <<"1","9","9","2">>] :
        a \in TypedArtists, t \in TypedTitles \ {<<>>} }

(* The index the tools run against: what process_releases left from one    *)
(* of these dumps.                                                         *)

Release(id, title, artists, released, barcodes) ==
    [id |-> id, title |-> title, artists |-> artists, released |-> released,
     barcodes |-> barcodes]

SampleDumps ==
    { <<>>,
      << Release(1, <<"A">>, << <<"X">> >>, <<"1","9","9","2">>,
                 << <<"1","2">> >>) >>,
      << Release(2, <<"A">>, << <<"X">> >>, <<"1","9","9","2">>,
                 << <<"1","2">> >>),
         Release(1, <<"B">>, << <<"X">>, <<"Y">> >>, <<>>,
                 << <<"1","-","2">> >>) >>,
      << Release(1, <<"A">>, << <<"X">> >>, <<"1","9","9","2">>,
                 << <<"0">> >>),
         Release(2, <<"B">>, << <<"X">>, <<"Y">> >>, <<>>,
                 << <<" ","-">> >>) >>,
      << Release(1, <<"A">>, << <<"X",","," ","Z">> >>, <<"1","9","9","2">>,
                 << <<"1">> >>),
         Release(2, <<"A">>, << <<"X",","," ","Z">> >>, <<"1","9","9","2">>,
                 << <<"0">> >>) >> }

InitTools ==
    /\ \E dump \in SampleDumps :
         /\ processed = dump
         /\ releases = process_dump({}, dump)
         /\ committed = process_dump({}, dump)
    /\ pc = "done"
    /\ errors = <<>>
    /\ rerun = NoDict
    /\ albums = <<>>
    /\ inventory = <<>>
    /\ database = <<>>
    /\ decodable = TRUE
    /\ ScanIdle
    /\ DownloadIdle
    /\ CallIdle

(* album_json_creator.py: the handling of one scan.                        *)

\* batch_mode, lines 444-475, for one barcode of the list
BatchScan ==
    /\ \E s \in Scans, pos \in 1..(Len(albums) + 1) :
         LET found == find_all_albums_by_barcode(s, albums)
             md    == lookup_barcode(s, releases)
         IN  /\ tool' = "batch_mode"
             /\ scan' = s
             /\ matching' = found
             /\ ui' = NoUi
             /\ IF found # <<>>
                THEN /\ outcome' = <<"DUPLICATE">>
                     /\ selected' = first_match(found)
                     /\ metadata' = NoDict
                     /\ albums' = albums
                ELSE IF md # NoDict
                THEN /\ creates_file(md, albums) => Len(albums) < MaxFiles
                     /\ outcome' = <<"NEW">>
                     /\ selected' = NoDict
                     /\ metadata' = md
                     /\ albums' = create_album_json(md, albums, pos)
                ELSE /\ outcome' = <<"NOT_FOUND">>
                     /\ selected' = NoDict
                     /\ metadata' = NoDict
                     /\ albums' = albums
    /\ UNCHANGED <<ingestVars, inventory, database, decodable, downloadVars,
                   callVars>>

\* interactive_mode, lines 325-433, for one line that is not quit
CreatorScan ==
    /\ \E s \in Scans \cup {<<>>}, pos \in 1..(Len(albums) + 1) :
         LET found == find_all_albums_by_barcode(s, albums)
             md    == lookup_barcode(s, releases)
         IN  /\ tool' = "creator_interactive"
             /\ scan' = s
             /\ IF s = <<>>
                THEN /\ matching' = <<>>
                     /\ ui' = NoUi
                     /\ outcome' = <<>>
                     /\ selected' = NoDict
                     /\ metadata' = NoDict
                     /\ albums' = albums
                ELSE IF found # <<>>
                THEN \E menu \in Menus(Len(found)) :
                     /\ matching' = found
                     /\ ui' = [menu |-> menu, answers |-> <<>>, artist |-> <<>>, write |-> "none"]
                     /\ outcome' = <<"DUPLICATE">>
                     /\ selected' = select_album_menu(found, menu)
                     /\ metadata' = NoDict
                     /\ albums' = albums
                ELSE IF md # NoDict
                THEN \E correct \in {"y", "n"}, title \in TypedTitles,
                        artist \in TypedArtists \cup {<<>>} :
                     LET retitled  == IF title # <<>>
                                      THEN [md EXCEPT !.title = title]
                                      ELSE md
                         corrected == IF artist # <<>>
                                      THEN [retitled EXCEPT !.artist = artist]
                                      ELSE retitled
                     IN  /\ correct = "y" => (title = <<>> /\ artist = <<>>)
                         /\ creates_file(corrected, albums) => Len(albums) < MaxFiles
                         /\ matching' = <<>>
                         /\ ui' = [menu |-> NoMenu, answers |-> <<correct>>,
                                   artist |-> artist, write |-> "none"]
                         /\ outcome' = <<"NEW">>
                         /\ selected' = NoDict
                         /\ metadata' = md
                         /\ albums' = create_album_json(corrected, albums, pos)
                ELSE \E create_manual \in {"y", "n"}, entry \in ManualEntries :
                     LET manual == [barcode |-> s, artist |-> entry.artist,
                                    title |-> entry.title, year |-> entry.year]
                     IN  /\ matching' = <<>>
                         /\ ui' = [menu |-> NoMenu, answers |-> <<create_manual>>,
                                   artist |-> IF create_manual = "y"
                                              THEN entry.artist ELSE <<>>,
                                   write |-> "none"]
                         /\ outcome' = <<"NOT_FOUND">>
                         /\ selected' = NoDict
                         /\ metadata' = NoDict
                         /\ IF create_manual = "y"
                            THEN /\ creates_file(manual, albums) => Len(albums) < MaxFiles
                                 /\ albums' = create_album_json(manual, albums, pos)
                            ELSE albums' = albums
    /\ UNCHANGED <<ingestVars, inventory, database, decodable, downloadVars,
                   callVars>>

NextCreator == BatchScan \/ CreatorScan

SpecCreator == InitTools /\ [][NextCreator]_vars

(* cd_inventory.json: update_inventory at the end of a run.  The runs are  *)
(* batch runs, and interactive runs in which the user quits.               *)

\* the inventory entries one run of the model may reach
MaxInventory == 3

\* main, line 507, after batch_mode has returned
BatchEnd ==
    /\ tool = "batch_mode"
    /\ Len(update_inventory(inventory, albums)) <= MaxInventory
    /\ inventory' = update_inventory(inventory, albums)
    /\ tool' = "batch_end"
    /\ scan' = <<>> /\ matching' = <<>> /\ ui' = NoUi
    /\ selected' = NoDict /\ outcome' = <<>> /\ metadata' = NoDict
    /\ UNCHANGED <<ingestVars, albums, database, decodable, downloadVars,
                   callVars>>

\* interactive_mode, lines 325-330, for quit, and then main, line 507:
\* update_inventory runs twice over the same files
CreatorQuit ==
    /\ tool \in {"none", "batch_end", "creator_quit"}
    /\ LET once == update_inventory(inventory, albums)
       IN  /\ Len(update_inventory(once, albums)) <= MaxInventory
           /\ inventory' = update_inventory(once, albums)
    /\ tool' = "creator_quit"
    /\ scan' = <<>> /\ matching' = <<>> /\ ui' = NoUi
    /\ selected' = NoDict /\ outcome' = <<>> /\ metadata' = NoDict
    /\ UNCHANGED <<ingestVars, albums, database, decodable, downloadVars,
                   callVars>>

NextInventory == BatchScan \/ BatchEnd \/ CreatorQuit

SpecInventory == InitTools /\ [][NextInventory]_vars

-----------------------------------------------------------------------------
(* barcode_lookup.py: the association store barcode_database.json.         *)
(* `database` lists the entries in the order of the dict, which is the     *)
(* order of first association; the key of an entry is its barcode field.   *)
(* An entry keeps barcode, artist, album, discogs_id and year;             *)
(* discogs_url, genres, formats, labels, country, catno, path and          *)
(* timestamp are copied from the metadata and are not modelled.            *)

\* metadata.get(key, default)
get(md, key, default) == IF key \in DOMAIN md THEN md[key] ELSE default

\* lines 126-130: the partial matches, without those already collected
RECURSIVE partial_matches(_, _, _)
partial_matches(barcode, entries, matching_albums) ==
    IF entries = <<>> THEN matching_albums
    ELSE LET album == Head(entries)
             hit   == \/ is_substring(barcode, album.barcode)
                      \/ is_substring(album.barcode, barcode)
         IN  partial_matches(barcode, Tail(entries),
                 IF hit /\ album \notin Range(matching_albums)
                 THEN Append(matching_albums, album)
                 ELSE matching_albums)

\* a search that stops after the exact match
exact_match_only(barcode, entries) ==
    SelectSeq(entries, LAMBDA e : e.barcode = barcode)

\* find_all_albums_in_database: the exact match first, then the partial ones
find_all_albums_in_database(barcode, entries) ==
    partial_matches(barcode, entries,
                    SelectSeq(entries, LAMBDA e : e.barcode = barcode))

\* the entry associate_barcode_with_album builds; artist and album are the
\* overrides, empty when not given
association_entry(barcode, md, artist, album) ==
    [barcode    |-> barcode,
     artist     |-> first_artist(IF artist # <<>> THEN artist
                                 ELSE get(md, "artist", <<>>)),
     album      |-> IF album # <<>> THEN album ELSE get(md, "title", <<>>),
     discogs_id |-> get(md, "discogs_id", <<>>),
     year       |-> get(md, "year", <<>>)]

\* whether the association adds a key
adds_entry(barcode, entries) ==
    \A i \in 1..Len(entries) : entries[i].barcode # barcode

\* associate_barcode_with_album: database[barcode] = entry, saved
associate_barcode_with_album(barcode, md, artist, album, entries) ==
    LET entry == association_entry(barcode, md, artist, album)
    IN  IF adds_entry(barcode, entries)
        THEN Append(entries, entry)
        ELSE [i \in 1..Len(entries) |->
                IF entries[i].barcode = barcode THEN entry ELSE entries[i]]

\* load_barcode_database: the entries of the file; {} when there is no
\* file or when json.load raises JSONDecodeError
load_barcode_database(entries, whole) == IF whole THEN entries ELSE <<>>

\* save_barcode_database: open(BARCODE_DB_FILE, 'w') empties the file
\* before json.dump writes the new content.  The write goes through, or
\* open raises and the file is as it was, or json.dump raises on the way
\* (the disk is full) and leaves the beginning of a JSON text with the
\* first cut entries of the new content in it.
save_barcode_database(old, new, write, cut) ==
    IF write = "ok" THEN new
    ELSE IF write = "open_fails" THEN old
    ELSE SubSeq(new, 1, cut)

\* how the write of the file may go
Writes == {"ok", "open_fails", "dump_fails"}

\* artist and album typed at the prompts
TypedNames == { [artist |-> a, album |-> <<"B">>] : a \in TypedArtists }

\* the call of associate_barcode_with_album at the end of a scan, with
\* what was asked before it; typed is the artist typed, if any
Associate(s, md, artist, album, menu, said) ==
    \E write \in Writes, cut \in 0..MaxEntries :
        LET loaded == load_barcode_database(database, decodable)
            saved  == associate_barcode_with_album(s, md, artist, album, loaded)
        IN  /\ ui' = [menu |-> menu, answers |-> said, artist |-> artist,
                      write |-> write]
            /\ (write = "ok" /\ adds_entry(s, loaded)) => Len(loaded) < MaxEntries
            /\ cut = 0 \/ (write = "dump_fails" /\ cut < Len(saved))
            /\ database' = save_barcode_database(database, saved, write, cut)
            /\ decodable' = (write = "ok" \/ (write = "open_fails" /\ decodable))

\* a scan that ends without a call of associate_barcode_with_album
NoAssociate(menu, said) ==
    /\ ui' = [menu |-> menu, answers |-> said, artist |-> <<>>, write |-> "none"]
    /\ UNCHANGED <<database, decodable>>

\* lines 321-370 (interactive_mode) and 407-429 (main): the index lookup
\* and what follows it.  reported and answered are what was reported and
\* answered before.
LookupAndAssociate(s, found, menu, sel, reported, answered, interactive) ==
    LET md == lookup_barcode(s, releases)
    IN  /\ matching' = found
        /\ selected' = sel
        /\ metadata' = md
        /\ IF md # NoDict
           THEN \E correct \in {"y", "n"} :
                /\ outcome' = Append(reported, "NEW")
                /\ IF correct = "n"
                   THEN \E action \in {"m", "s"}, typed \in TypedNames :
                        IF action = "m"
                        THEN Associate(s, md, typed.artist, typed.album, menu,
                                       answered \o <<correct, action>>)
                        ELSE NoAssociate(menu, answered \o <<correct, action>>)
                   ELSE \E associate \in {"y", "n"} :
                        IF associate = "y"
                        THEN Associate(s, md, <<>>, <<>>, menu,
                                       answered \o <<correct, associate>>)
                        ELSE NoAssociate(menu, answered \o <<correct, associate>>)
           ELSE /\ outcome' = Append(reported, "NOT_FOUND")
                /\ IF interactive
                   THEN \E associate \in {"y", "n"}, typed \in TypedNames :
                        LET minimal_metadata ==
                                [artist |-> typed.artist, title |-> typed.album]
                        IN  IF associate = "y"
                            THEN Associate(s, minimal_metadata, typed.artist,
                                           typed.album, menu,
                                           Append(answered, associate))
                            ELSE NoAssociate(menu, Append(answered, associate))
                   ELSE NoAssociate(menu, answered)

\* lines 293-319 and 383-405: the search of the association store, the
\* menu, and the question that follows "No album selected."
ResolveScan(s, interactive) ==
    LET found == find_all_albums_in_database(
                     s, load_barcode_database(database, decodable))
    IN  IF found # <<>>
        THEN \E menu \in Menus(Len(found)) :
             LET sel == select_album_menu(found, menu)
             IN  IF sel # NoDict
                 THEN /\ matching' = found
                      /\ selected' = sel
                      /\ metadata' = NoDict
                      /\ outcome' = <<"DUPLICATE">>
                      /\ ui' = [menu |-> menu, answers |-> <<>>, artist |-> <<>>, write |-> "none"]
                      /\ UNCHANGED <<database, decodable>>
                 ELSE \E lookup_db \in {"y", "n"} :
                      IF lookup_db # "y"
                      THEN /\ matching' = found
                           /\ selected' = sel
                           /\ metadata' = NoDict
                           /\ outcome' = <<"DUPLICATE">>
                           /\ ui' = [menu |-> menu, answers |-> <<lookup_db>>, artist |-> <<>>, write |-> "none"]
                           /\ UNCHANGED <<database, decodable>>
                      ELSE LookupAndAssociate(s, found, menu, sel, <<"DUPLICATE">>,
                                              <<lookup_db>>, interactive)
        ELSE LookupAndAssociate(s, found, NoMenu, NoDict, <<>>, <<>>, interactive)

\* interactive_mode, lines 283-370, for one line that is not quit
LookupScan ==
    /\ \E s \in Scans \cup {<<>>} :
         /\ tool' = "lookup_interactive"
         /\ scan' = s
         /\ IF s = <<>>
            THEN /\ matching' = <<>>
                 /\ ui' = NoUi
                 /\ outcome' = <<>>
                 /\ selected' = NoDict
                 /\ metadata' = NoDict
                 /\ UNCHANGED <<database, decodable>>
            ELSE ResolveScan(s, TRUE)
    /\ UNCHANGED <<ingestVars, albums, inventory, downloadVars, callVars>>

\* main, lines 377-429, with a barcode on the command line
MainScan ==
    /\ \E s \in Scans :
         /\ tool' = "lookup_main"
         /\ scan' = s
         /\ ResolveScan(s, FALSE)
    /\ UNCHANGED <<ingestVars, albums, inventory, downloadVars, callVars>>

NextLookup == LookupScan \/ MainScan

SpecLookup == InitTools /\ [][NextLookup]_vars

-----------------------------------------------------------------------------
(* Claims about the resolution of a scan.                                  *)

\* a scan has been handled and was not rejected as empty
Scanned == tool # "none" /\ scan # <<>>

\* the last outcome reported for the scan
LastOutcome == outcome[Len(outcome)]

\* C4: a scan whose digits-only form is the Barcode of an existing album
\* record is resolved as DUPLICATE of such a record, whatever else the
\* scanned string contains.
C4_NormalizedLocalSearch ==
    [][ (\E i \in 1..Len(albums) : albums[i].data.Barcode = Normalize(scan'))
        => /\ outcome' = <<"DUPLICATE">>
           /\ \E i \in 1..Len(matching') :
                  matching'[i].data.Barcode = Normalize(scan') ]_vars

\* C5: a scan for which the search of the local store finds a record
\* changes no store: no album file and no association entry is written,
\* whether a record is selected or not.
C5_DuplicateCreatesNothing ==
    [][ matching' # <<>> => (database' = database /\ albums' = albums) ]_vars

\* the index has a row for the digits-only form of the scan
InIndex == \E r \in releases : r.barcode = Normalize(scan)

\* C6: a resolution reports exactly one outcome: DUPLICATE iff a local
\* record matches, NEW iff none matches and the index has the barcode,
\* NOT_FOUND iff neither.
C6_ExactlyOneOutcome ==
    Scanned =>
        /\ Len(outcome) = 1
        /\ outcome[1] = "DUPLICATE" <=> matching # <<>>
        /\ outcome[1] = "NEW" <=> (matching = <<>> /\ InIndex)
        /\ outcome[1] = "NOT_FOUND" <=> (matching = <<>> /\ ~InIndex)

\* C7: a scan whose digits-only form is empty or all zeros never yields a
\* NEW candidate, whatever the index holds.
C7_ZeroScanRejected ==
    (Scanned /\ AllZeros(Normalize(scan))) =>
        /\ metadata = NoDict
        /\ \A i \in 1..Len(outcome) : outcome[i] # "NEW"

\* C8: with no matching local record, the result of the scan is the result
\* of every string with the same digits-only form: both NOT_FOUND, or both
\* NEW with the same candidate (barcode, release id, URL, title, artist, year).
C8_SameDigitsSameResult ==
    (Scanned /\ matching = <<>>) =>
        \A other \in Scans :
            Normalize(other) = Normalize(scan) =>
                LET result == lookup_barcode(other, releases)
                IN  /\ metadata = result
                    /\ LastOutcome = IF result = NoDict THEN "NOT_FOUND" ELSE "NEW"

\* C8 happens: a scan with a dash got the candidate of the digits
C8_Witness ==
    /\ Scanned /\ matching = <<>>
    /\ scan = <<"1","-","2">>
    /\ metadata # NoDict
    /\ metadata.barcode = <<"1","2">>
    /\ LastOutcome = "NEW"

\* the first file in enumeration order whose Barcode is the scan
FirstEncountered ==
    albums[CHOOSE i \in 1..Len(albums) :
              /\ albums[i].data.Barcode = scan
              /\ \A k \in 1..(i - 1) : albums[k].data.Barcode # scan]

\* C9: in batch mode, with two or more album records of the scanned
\* barcode, the record reported is the first one in enumeration order,
\* a function of the store content and the scan.
C9_BatchFirstMatch ==
    (tool = "batch_mode" /\ Len(matching) >= 2) =>
        /\ outcome = <<"DUPLICATE">>
        /\ selected = FirstEncountered

\* C9 happens: batch mode met two different records of one barcode
C9_Witness ==
    /\ tool = "batch_mode"
    /\ Len(matching) >= 2
    /\ matching[1] # matching[2]
    /\ selected = matching[1]

\* select_album_menu had to choose among several matches
MenuShown == Scanned /\ tool # "batch_mode" /\ Len(matching) >= 2

\* C10 as stated: with the curses menu failing, the first match is
\* returned, and only Escape in the menu gives "no selection".
C10_FallbackFirstMatch ==
    MenuShown =>
        /\ ui.menu.curses = "raises" => selected = matching[1]
        /\ selected = NoDict => (ui.menu.curses = "ok" /\ ui.menu.key = -1)

\* C10 as the code has it: with the curses menu failing, a numbered
\* prompt decides: the match of the number typed, and "no selection" for
\* 0, for a number out of range and for a line that is no number.
C10_FallbackPrompt ==
    (MenuShown /\ ui.menu.curses = "raises") =>
        /\ \A k \in 1..Len(matching) :
               ui.menu.typed = int_str(k) => selected = matching[k]
        /\ (\A k \in 1..Len(matching) : ui.menu.typed # int_str(k))
               => selected = NoDict

\* C10 happens: the menu failed and the second match was typed and returned
C10_Witness ==
    /\ MenuShown
    /\ ui.menu.curses = "raises"
    /\ ui.menu.typed = <<"2">>
    /\ selected = matching[2]
    /\ matching[1] # matching[2]

\* the key equals the searched barcode, contains it or is contained in it
related(key, barcode) ==
    key = barcode \/ is_substring(barcode, key) \/ is_substring(key, barcode)

\* C23: find_all_albums_in_database returns exactly the entries of the
\* store whose key equals the searched barcode, contains it or is
\* contained in it, each of them once and no other entry.
C23_ExactlyRelatedEntries ==
    [][ (tool' \in {"lookup_interactive", "lookup_main"} /\ scan' # <<>>) =>
            LET loaded == load_barcode_database(database, decodable)
            IN  /\ Range(matching') =
                       {e \in Range(loaded) : related(e.barcode, scan')}
                /\ \A i, j \in 1..Len(matching') :
                       i # j => matching'[i] # matching'[j] ]_vars

\* a search has returned the entry of the scanned barcode and an entry
\* of another key, and has left out a third entry
C23_Witness ==
    /\ tool \in {"lookup_interactive", "lookup_main"}
    /\ Len(matching) = 2
    /\ \E i, j \in 1..Len(matching) :
           matching[i].barcode = scan /\ matching[j].barcode # scan
    /\ \E i \in 1..Len(database) :
           database[i] \notin Range(matching) /\ database[i].barcode # scan

\* C25: a call of associate_barcode_with_album whose write goes through
\* deletes no entry: every barcode in the stored file is still a key
\* afterwards, and the entries of the barcodes other than the one of the
\* call are unchanged, also when the stored file could not be decoded
\* when it was loaded.
C25_EntriesNeverDeleted ==
    [][ ui'.write = "ok" =>
            \A i \in 1..Len(database) :
                \E j \in 1..Len(database') :
                    /\ database'[j].barcode = database[i].barcode
                    /\ database[i].barcode # scan' =>
                           database'[j] = database[i] ]_vars

-----------------------------------------------------------------------------
(* download_discogs_data.py: MultipartDownloader.download.                 *)
(* The bytes of a part and of the target file are kept as the byte ranges  *)
(* they hold; the name of a part is kept from ".part" on, output_path      *)
(* before it being the same for all parts.                                 *)

\* the values of num_chunks tried: 1..MaxChunks
MaxChunks == 11

\* as_completed: a future completes while fewer than MaxOvertake futures
\* of a lower chunk number are still running
MaxOvertake == 2

\* content-length of the dump
FileSizes == {2 * MaxChunks, 2 * MaxChunks + 1}

\* the code points of the characters of a part name
ord(c) ==
    IF c = "." THEN 46
    ELSE IF c = "a" THEN 97
    ELSE IF c = "p" THEN 112
    ELSE IF c = "r" THEN 114
    ELSE IF c = "t" THEN 116
    ELSE 48 + digit_value(c)

\* a < b for strings, as sorted() compares them
str_less(a, b) ==
    \E k \in 1..(Len(a) + 1) :
        /\ \A j \in 1..(k - 1) : j <= Len(b) /\ a[j] = b[j]
        /\ \/ k = Len(a) + 1 /\ Len(b) >= k
           \/ k <= Len(a) /\ k <= Len(b) /\ ord(a[k]) < ord(b[k])

\* chunk_file = f"{self.output_path}.part{chunk_number}"
part_name(chunk_number) == <<".", "p", "a", "r", "t">> \o int_str(chunk_number)

\* the chunk a part file was written for
chunk_of(name) == CHOOSE i \in 0..(MaxChunks + 1) : part_name(i) = name

\* lines 80-86: (start, end) of chunk i
chunk_range(i, n, size) ==
    LET chunk_size == size \div n
    IN  [start |-> i * chunk_size,
         end   |-> IF i < n - 1 THEN (i + 1) * chunk_size - 1 ELSE size - 1]

\* os.path.getsize of a file that holds these ranges
getsize(ranges) ==
    LET RECURSIVE total(_)
        total(k) == IF k = 0 THEN 0
                    ELSE total(k - 1) + ranges[k].end - ranges[k].start + 1
    IN  total(Len(ranges))

\* what a range request can be answered with: the bytes asked for, an
\* error status with an error document as its body, fewer bytes than asked
\* for, or no answer at all (requests raises)
Answers == {"full", "error", "short", "raises"}

\* the downloads of one behaviour that fetch, and the range requests of a
\* download that are not answered in full
MaxFetches == 1
MaxFailed == 1

\* lines 49-62: the bytes of the dump that download_chunk writes to the
\* part of chunk i: every block of the body, whatever the status of the
\* response and however long the body is
part_content(i, how, n, size) ==
    LET asked == chunk_range(i, n, size)
    IN  IF how = "full" THEN asked
        ELSE IF how = "short" THEN [start |-> asked.start, end |-> asked.end - 1]
        ELSE [start |-> asked.start, end |-> asked.start - 1]

\* the parts that do not hold the range asked for
failed_parts ==
    {k \in 1..Len(part_bytes) :
        part_bytes[k] #
            chunk_range(chunk_of(chunk_files[k]), num_chunks, file_size)}

\* lines 109-112: for chunk_file in sorted(chunk_files): the target file
\* gets the content of the parts in the order of their names
combine(names, contents) ==
    LET ordered == SortSeq(names, str_less)
        at(name) == CHOOSE k \in 1..Len(names) : names[k] = name
    IN  [k \in 1..Len(ordered) |-> contents[at(ordered[k])]]

\* the chunks whose future has not completed
running == {i \in 0..(num_chunks - 1) : part_name(i) \notin Range(chunk_files)}

InitDownload == ProgramIdle /\ CallIdle

\* lines 66-101: download() of a MultipartDownloader built with n chunks,
\* up to the submission of the chunks
StartDownload ==
    /\ dl_pc \in {"idle", "combined", "exists"}
    /\ \E n \in 1..MaxChunks, size \in FileSizes :
         LET there == outfile # <<>> /\ getsize(outfile) = size
         IN  /\ there \/ fetches < MaxFetches
             /\ num_chunks' = n
             /\ file_size' = size
             /\ dl_pc' = IF there THEN "exists" ELSE "downloading"
             /\ fetches' = IF there THEN fetches ELSE fetches + 1
    /\ chunk_files' = <<>>
    /\ part_bytes' = <<>>
    /\ UNCHANGED <<outfile, progressVars, ingestVars, storeVars, scanVars,
                   callVars>>

\* lines 49-64, 102-103: the future of one chunk completes: download_chunk
\* has written its part and returned its name, or has raised and
\* future.result() raises in download()
ChunkCompleted ==
    /\ dl_pc = "downloading"
    /\ \E i \in running, how \in Answers :
         /\ Cardinality({j \in running : j < i}) < MaxOvertake
         /\ how = "full" \/ Cardinality(failed_parts) < MaxFailed
         /\ IF how = "raises"
            THEN /\ dl_pc' = "raised"
                 /\ UNCHANGED <<chunk_files, part_bytes>>
            ELSE /\ chunk_files' = Append(chunk_files, part_name(i))
                 /\ part_bytes' = Append(part_bytes,
                                part_content(i, how, num_chunks, file_size))
                 /\ UNCHANGED dl_pc
    /\ UNCHANGED <<num_chunks, file_size, fetches, outfile, progressVars,
                   ingestVars, storeVars, scanVars, callVars>>

\* lines 105-119: all futures are done, the parts are combined and removed,
\* download() returns True
CombineChunks ==
    /\ dl_pc = "downloading"
    /\ running = {}
    /\ outfile' = combine(chunk_files, part_bytes)
    /\ dl_pc' = "combined"
    /\ UNCHANGED <<num_chunks, file_size, chunk_files, part_bytes, fetches,
                   progressVars, ingestVars, storeVars, scanVars, callVars>>

NextDownload == StartDownload \/ ChunkCompleted \/ CombineChunks

SpecDownload == InitDownload /\ [][NextDownload]_vars

\* C20: for every number of chunks and every order in which the chunks
\* complete, the target file is written once all chunks have completed
\* and holds the byte ranges of chunk 0, chunk 1, ... chunk N-1 in this
\* order.
C20_AscendingRanges ==
    dl_pc = "combined" /\ failed_parts = {} =>
        /\ Len(chunk_files) = num_chunks
        /\ Len(outfile) = num_chunks
        /\ \A k \in 1..Len(outfile) :
               outfile[k] = chunk_range(k - 1, num_chunks, file_size)

\* C21: when the fetch of a segment fails (an error answer or fewer bytes
\* than the range asked for count as failed), the download is aborted: it
\* does not report success and the target is not assembled from the parts.
C21_FailedSegmentAborts ==
    failed_parts # {} => dl_pc # "combined"

-----------------------------------------------------------------------------
(* download_discogs_data.py: the threads of one download, step by step.    *)
(* self.progress_bar.update(len(data)) is self.n += n: a read of n and a   *)
(* write of n, between which another thread can run.                       *)

\* the threads of a download, and the blocks a response body arrives in
MaxWorkers == 2
MaxBlocks == 2

\* len(data) of a block that iter_content yields
BlockSizes == {0, 1, 2}

\* the state of the download, but for its threads and their progress
downloadRest == <<dl_pc, num_chunks, file_size, chunk_files, part_bytes,
                  fetches, outfile>>

\* an update without the lock: a thread enters whoever holds it
lock_ignored(holders) == TRUE

\* line 61: with self.lock: a thread enters when no thread holds the lock
can_acquire(holders) == holders = {}

\* workers with the fields f of worker w set to the values of r
at_worker(w, r) ==
    [workers EXCEPT ![w] = [f \in DOMAIN workers[w] |->
                              IF f \in DOMAIN r THEN r[f] ELSE workers[w][f]]]

\* the sum of the numbers of a sequence
sum(s) ==
    LET RECURSIVE total(_)
        total(k) == IF k = 0 THEN 0 ELSE total(k - 1) + s[k]
    IN  total(Len(s))

\* lines 88-101: the progress bar is created at 0 and one thread per chunk
\* is submitted
StartWorkers ==
    /\ workers = <<>>
    /\ \E n \in 1..MaxWorkers :
         /\ workers' = [k \in 1..n |->
                          [pc |-> "fetch", blocks |-> 0, data |-> 0, n |-> 0]]
         /\ written' = [k \in 1..n |-> 0]
    /\ progress_bar' = 0
    /\ lock' = {}
    /\ UNCHANGED <<downloadRest, ingestVars, storeVars, scanVars, callVars>>

\* lines 58-60: iter_content yields a block; an empty one is passed over,
\* any other is written to the part
NextBlock ==
    \E w \in 1..Len(workers), size \in BlockSizes :
        /\ workers[w].pc = "fetch"
        /\ workers[w].blocks < MaxBlocks
        /\ IF size = 0
           THEN /\ workers' = at_worker(w, [blocks |-> workers[w].blocks + 1])
                /\ UNCHANGED written
           ELSE /\ workers' = at_worker(w, [blocks |-> workers[w].blocks + 1,
                                           data |-> size, pc |-> "acquire"])
                /\ written' = [written EXCEPT ![w] = @ + size]
        /\ UNCHANGED <<lock, progress_bar, downloadRest, ingestVars, storeVars,
                       scanVars, callVars>>

\* lines 57-64: the body has ended, the part is closed, download_chunk
\* returns
EndOfBody ==
    \E w \in 1..Len(workers) :
        /\ workers[w].pc = "fetch"
        /\ workers' = at_worker(w, [pc |-> "done"])
        /\ UNCHANGED <<lock, progress_bar, written, downloadRest, ingestVars,
                       storeVars, scanVars, callVars>>

\* line 61: with self.lock
Acquire ==
    \E w \in 1..Len(workers) :
        /\ workers[w].pc = "acquire"
        /\ can_acquire(lock)
        /\ lock' = lock \cup {w}
        /\ workers' = at_worker(w, [pc |-> "load"])
        /\ UNCHANGED <<progress_bar, written, downloadRest, ingestVars,
                       storeVars, scanVars, callVars>>

\* line 62: update(len(data)) reads self.n
LoadN ==
    \E w \in 1..Len(workers) :
        /\ workers[w].pc = "load"
        /\ workers' = at_worker(w, [n |-> progress_bar, pc |-> "store"])
        /\ UNCHANGED <<lock, progress_bar, written, downloadRest, ingestVars,
                       storeVars, scanVars, callVars>>

\* line 62: update(len(data)) writes self.n
StoreN ==
    \E w \in 1..Len(workers) :
        /\ workers[w].pc = "store"
        /\ progress_bar' = workers[w].n + workers[w].data
        /\ workers' = at_worker(w, [pc |-> "release"])
        /\ UNCHANGED <<lock, written, downloadRest, ingestVars, storeVars,
                       scanVars, callVars>>

\* line 61: the with block is left, the lock is released
ReleaseLock ==
    \E w \in 1..Len(workers) :
        /\ workers[w].pc = "release"
        /\ lock' = lock \ {w}
        /\ workers' = at_worker(w, [pc |-> "fetch"])
        /\ UNCHANGED <<progress_bar, written, downloadRest, ingestVars,
                       storeVars, scanVars, callVars>>

NextProgress ==
    StartWorkers \/ NextBlock \/ EndOfBody \/ Acquire \/ LoadN \/ StoreN
        \/ ReleaseLock

SpecProgress == InitDownload /\ [][NextProgress]_vars

\* all threads of the download have returned
AllReturned ==
    /\ workers # <<>>
    /\ \A w \in 1..Len(workers) : workers[w].pc = "done"

\* C22: however the threads interleave, the progress counter never
\* decreases, and once all threads have finished it equals the number of
\* bytes that all threads together wrote to their parts: no increment is
\* lost.
C22_NoLostIncrement ==
    /\ [][progress_bar' >= progress_bar]_vars
    /\ [](AllReturned => progress_bar = sum(written))

\* two threads have each written two blocks and have both returned
C22_Witness ==
    /\ AllReturned
    /\ Len(workers) = MaxWorkers
    /\ \A w \in 1..Len(workers) : workers[w].blocks = MaxBlocks /\ written[w] >= 2

-----------------------------------------------------------------------------
(* Functions called on their own, on arguments of bounded sets.            *)

\* characters around the body of a file name
MaxHead == 1
MaxTail == 2

\* n letters
Pad(n) == [i \in 1..n |-> "a"]

\* the characters of the file names tried
FilenameChars == InvalidChars \cup {"a", ".", " "}

\* file names: short ones, and ones around the length limit
FilenameInputs ==
    { head \o body \o tail :
        head \in SeqsUpTo(FilenameChars, MaxHead),
        body \in {<<>>, Pad(MaxFilenameLen - 1)},
        tail \in SeqsUpTo(FilenameChars, MaxTail) }

InitSanitize ==
    /\ ProgramIdle
    /\ fn = "none"
    /\ arg \in FilenameInputs
    /\ returned = <<>>

\* sanitize_filename(arg)
CallSanitize ==
    /\ fn = "none"
    /\ fn' = "sanitize_filename"
    /\ returned' = sanitize_filename(arg)
    /\ UNCHANGED <<arg, ingestVars, storeVars, scanVars, downloadVars>>

SpecSanitize == InitSanitize /\ [][CallSanitize]_vars

\* C14: sanitize_filename returns at most 100 characters, none of them one
\* of \ / * ? : " < > |, and what it returns is a stretch of its argument
\* in which each of these characters stands as one underscore.
C14_SanitizedFilename ==
    fn = "sanitize_filename" =>
        /\ Len(returned) <= 100
        /\ \A i \in 1..Len(returned) : returned[i] \notin InvalidChars
        /\ \E k \in 0..Len(arg) :
               \A i \in 1..Len(returned) :
                   /\ i + k <= Len(arg)
                   /\ returned[i] = IF arg[i + k] \in InvalidChars
                                  THEN "_" ELSE arg[i + k]

\* C14 happens: a name of more than 100 characters that begins with an
\* invalid character came back with 100, the first an underscore
C14_Witness ==
    /\ fn = "sanitize_filename"
    /\ Len(arg) > 100
    /\ arg[1] \in InvalidChars
    /\ Len(returned) = 100
    /\ returned[1] = "_"

\* the length of the barcode strings tried
MaxBarcodeLen == 4

\* the characters of the barcode strings tried
BarcodeChars == {"1", "2", "-", " ", "U+FF12"}

InitNormalize ==
    /\ ProgramIdle
    /\ fn = "none"
    /\ arg \in SeqsUpTo(BarcodeChars, MaxBarcodeLen)
    /\ returned = <<>>

\* ''.join(c for c in arg if c.isdigit()), as lookup_barcode,
\* process_releases and search_barcode have it
CallNormalize ==
    /\ fn = "none"
    /\ fn' = "normalize"
    /\ returned' = Normalize(arg)
    /\ UNCHANGED <<arg, ingestVars, storeVars, scanVars, downloadVars>>

SpecNormalize == InitNormalize /\ [][CallNormalize]_vars

\* the positions of the digits of s
DigitPositions(s) == {i \in 1..Len(s) : isdigit(s[i])}

\* the j-th position of P, counted from the left
NthPosition(P, j) == CHOOSE i \in P : Cardinality({k \in P : k <= i}) = j

\* C16: the normalized barcode is made of the digits of the string, all of
\* them and in their order, and normalizing it again returns it unchanged.
C16_DigitsInOrder ==
    fn = "normalize" =>
        /\ Len(returned) = Cardinality(DigitPositions(arg))
        /\ \A j \in 1..Len(returned) :
               returned[j] = arg[NthPosition(DigitPositions(arg), j)]
        /\ Normalize(returned) = returned

\* C16 happens: digits around a dash came back without it, in their order
C16_Witness ==
    /\ fn = "normalize"
    /\ arg = <<"2", "-", "1", " ">>
    /\ returned = <<"2", "1">>

-----------------------------------------------------------------------------
(* Claims about the records written.                                       *)

\* C11: update_inventory run again over the same album files adds nothing:
\* when interactive_mode quits, the inventory has after the second run
\* (main, line 507) the number of entries it had after the first (line 328).
C11_InventoryIdempotent ==
    [][ tool' = "creator_quit" =>
            Len(inventory') = Len(update_inventory(inventory, albums)) ]_vars

\* a string without a comma
NoComma(s) == \A i \in 1..Len(s) : s[i] # ","

\* e is the text of a before its first comma, without the blanks around
\* it; all of a when a has no comma
IsFirstSegment(e, a) ==
    IF NoComma(a) THEN e = a
    ELSE \E k \in 1..Len(a) :
            /\ a[k] = ","
            /\ NoComma(SubSeq(a, 1, k - 1))
            /\ e = strip(SubSeq(a, 1, k - 1))

\* the scan wrote a record with the artist typed at the prompt
TypedArtistWritten ==
    /\ ui.artist # <<>>
    /\ \/ tool = "creator_interactive"
       \/ ui.write = "ok"

C13_NoNullField ==
    (Scanned /\ outcome = <<"NEW">>) =>
        \A i \in 1..Len(albums) :
            albums[i].data.Barcode = metadata.barcode =>
                /\ albums[i].data.Year # None
                /\ albums[i].data.Artist # None
                /\ albums[i].data.Title # None

\* the user agreed to the write: 'y' to the last question asked, or 'm'
\* for a manual update
Confirmed(u) ==
    /\ u.answers # <<>>
    /\ u.answers[Len(u.answers)] \in {"y", "m"}

\* C17: the handling of a scan never changes the index, and it changes a
\* local store (an album file, an association entry) only after the user
\* has confirmed the write.
C17_WriteAfterConfirmation ==
    [][ /\ releases' = releases
        /\ (albums' # albums \/ database' # database) => Confirmed(ui') ]_vars

\* C18: when the write of the association file fails, at the open or
\* while the content is written, the file holds afterwards the entries it
\* held before associate_barcode_with_album was called.
C18_FailedWriteKeepsStore ==
    [][ ui'.write \in {"open_fails", "dump_fails"} =>
            (database' = database /\ decodable' = decodable) ]_vars

\* C26: create_album_json never replaces a file that holds the record of
\* another barcode: every record file is there afterwards, under its
\* name, with the Barcode it had.
C26_OneFilePerBarcode ==
    [][ \A i \in 1..Len(albums) :
            \E j \in 1..Len(albums') :
                /\ albums'[j].path = albums[i].path
                /\ albums'[j].data.Barcode = albums[i].data.Barcode ]_vars

\* the artist names of a release element that are not empty
artist_names(elem) == SelectSeq(elem.artists, LAMBDA a : a # <<>>)

\* C27: the artist of a candidate that lookup_barcode returns is the
\* first artist name of the release element the row was written from,
\* also when that name has a comma in it.
C27_FirstArtistName ==
    metadata # NoDict =>
        \A i \in 1..Len(processed) :
            (processed[i].id = metadata.discogs_id[2]
                 /\ artist_names(processed[i]) # <<>>) =>
                metadata.artist = artist_names(processed[i])[1]

\* C28: what sanitize_filename returns neither begins nor ends with a
\* space or a period, also for arguments of more than 100 characters, and
\* sanitize_filename applied to it returns it unchanged.
C28_TrimmedAndIdempotent ==
    fn = "sanitize_filename" =>
        /\ returned # <<>> =>
               /\ returned[1] \notin {" ", "."}
               /\ returned[Len(returned)] \notin {" ", "."}
        /\ sanitize_filename(returned) = returned

-----------------------------------------------------------------------------
(* process_discogs_data.py, lines 114-120: the label and catno columns of  *)
(* a row, from the label elements of a release.  A label element is kept   *)
(* as its name and catno attributes, "" for an attribute that is missing   *)
(* or empty: label.get(...) is false for both.                             *)

\* the label elements of one release
MaxLabels == 3

\* the attribute values tried
LabelNames == {<<>>, <<"L">>, <<"M">>}
Catnos == {<<>>, <<"1">>, <<"2">>}

\* the lists of label elements tried
LabelInputs ==
    SeqsUpTo({[name |-> n, catno |-> c] : n \in LabelNames, c \in Catnos},
             MaxLabels)

\* the non-empty values of attribute key, in the order of the elements
RECURSIVE attribute_values(_, _)
attribute_values(labels, key) ==
    IF labels = <<>> THEN <<>>
    ELSE (IF Head(labels)[key] # <<>> THEN <<Head(labels)[key]>> ELSE <<>>)
             \o attribute_values(Tail(labels), key)

\* lines 115-120: label and catno of the row
label_columns(labels) ==
    [label |-> join(<<",", " ">>, attribute_values(labels, "name")),
     catno |-> join(<<",", " ">>, attribute_values(labels, "catno"))]

InitLabels ==
    /\ ProgramIdle
    /\ fn = "none"
    /\ arg \in LabelInputs
    /\ returned = <<>>

\* the label and catno of the row written for a release with the label
\* elements arg
CallLabels ==
    /\ fn = "none"
    /\ fn' = "label_columns"
    /\ returned' = label_columns(arg)
    /\ UNCHANGED <<arg, ingestVars, storeVars, scanVars, downloadVars>>

SpecLabels == InitLabels /\ [][CallLabels]_vars

\* the values listed in a column, which holds them with ", " in between
RECURSIVE listed(_)
listed(column) ==
    IF column = <<>> THEN <<>>
    ELSE LET cuts == {k \in 1..(Len(column) - 1) :
                         column[k] = "," /\ column[k + 1] = " "}
         IN  IF cuts = {} THEN <<column>>
             ELSE LET k == CHOOSE c \in cuts : \A d \in cuts : c <= d
                  IN  <<SubSeq(column, 1, k - 1)>>
                          \o listed(SubSeq(column, k + 2, Len(column)))

\* the label elements that have a name, in order
named_labels(labels) == SelectSeq(labels, LAMBDA l : l.name # <<>>)

\* C24: the i-th catalog number of the row is the catalog number of the
\* label element that gave the i-th label name of the row, also when a
\* label element has a name and no catalog number, or the reverse.
C24_PairedByPosition ==
    fn = "label_columns" =>
        LET names  == listed(returned.label)
            catnos == listed(returned.catno)
        IN  \A i \in 1..Len(catnos) :
                /\ i <= Len(names)
                /\ named_labels(arg)[i].name = names[i]
                /\ named_labels(arg)[i].catno = catnos[i]

=============================================================================
